---- MODULE Spec2Model ----
(***************************************************************************)
(* Model of the mtail push exporter (exporter/export.go).                  *)
(*                                                                         *)
(* One background goroutine (started by StartMetricPush) receives ticks    *)
(* and runs PushMetrics; PushMetrics dials every registered target in turn *)
(* and calls writeSocketMetrics on the connection.  writeSocketMetrics     *)
(* walks the store under read locks and starts one EmitLabelSets goroutine *)
(* per metric, which hands the label sets over an unbuffered channel.      *)
(* A producer thread of the metrics pipeline takes write locks on the      *)
(* store and on metrics concurrently.  Locks are Go sync.RWMutex: a        *)
(* pending writer blocks new readers.                                      *)
(*                                                                         *)
(* formatLabels, the pure function the line formatters use to render a     *)
(* name and its labels, has a specification of its own (FmtSpec), with     *)
(* strings as sequences of characters.                                     *)
(***************************************************************************)
EXTENDS Integers, Sequences, FiniteSets, Bags, TLC

\* ---- bounds -------------------------------------------------------------
MaxTargets == 2
MaxMetrics == 1
MaxLabelSets == 2
MaxTicks == 2
MaxNameLen == 1
MaxKeyLen == 1
MaxValLen == 2
MaxRepLen == 1
MaxLabels == 2

Targets == 1..MaxTargets
Metrics == 1..MaxMetrics

VARIABLES
    pushTargets,  \* Exporter.pushTargets: sequence of registered targets
    started,      \* StartMetricPush has been called
    tickC,        \* ticker.C holds a tick (channel of capacity 1)
    ticks,        \* number of ticks the ticker has put in ticker.C
    pc,           \* position of the push goroutine
    idx,          \* index of the range loop over e.pushTargets
    exportTotal,  \* target.total   (expvar.Int per target)
    exportSuccess,\* target.success (expvar.Int per target)
    store,        \* the store: [metrics, labelSets, readers, writer, waiting]
    mlock,        \* per metric RWMutex: [readers, writer, waiting]
    producer,     \* the pipeline thread: [state, m]
    todo,         \* metrics the range over e.store.Metrics has yet to visit
    m,            \* metric of the current iteration (0: none)
    lc,           \* channel and EmitLabelSets goroutine of the current metric
    l,            \* label set received from lc, about to be written
    orphans,      \* EmitLabelSets goroutines left behind by a returned pass
    open,         \* targets whose connection is dialed and not closed
    push,         \* record of the push of the current target
    dialSeq,      \* targets dialed so far in the current tick
    failed,       \* targets whose push had a write error in the current tick
    troubled,     \* a dial, deadline, write or close has failed since the start
    fmt           \* a call of formatLabels: its arguments, locals and result

vars == <<pushTargets, started, tickC, ticks, pc, idx, exportTotal,
          exportSuccess, store, mlock, producer, todo, m, lc, l, orphans,
          open, push, dialSeq, failed, troubled, fmt>>

expVars  == <<exportTotal, exportSuccess>>
passVars == <<todo, m, lc, l, orphans>>
cfgVars  == <<pushTargets, started>>
tickVars == <<tickC, ticks>>

\* ---- helpers ------------------------------------------------------------
Range(s) == {s[i] : i \in 1..Len(s)}

NoChan == [m |-> 0, n |-> 0, sent |-> 0, closed |-> FALSE]

NoPush == [t |-> 0, dial |-> "none", deadline |-> "none",
           startTotal |-> 0, startSuccess |-> 0, lines |-> EmptyBag,
           expected |-> {}, visited |-> {}, entered |-> FALSE, ret |-> "none",
           closes |-> 0]

\* sync.RWMutex: RLock succeeds unless a writer holds the lock or waits for it
CanRLock(rw) == ~rw.writer /\ ~rw.waiting

\* sync.RWMutex: a pending Lock is granted once the readers have drained
CanLock(rw) == rw.waiting /\ ~rw.writer /\ rw.readers = 0

target == pushTargets[idx]

InitExporter ==
    /\ pushTargets = <<>>
    /\ started = FALSE
    /\ tickC = FALSE
    /\ ticks = 0
    /\ pc = "none"
    /\ idx = 0
    /\ exportTotal = [t \in Targets |-> 0]
    /\ exportSuccess = [t \in Targets |-> 0]
    /\ store = [metrics |-> {}, labelSets |-> [x \in Metrics |-> 0],
                readers |-> 0, writer |-> FALSE, waiting |-> FALSE]
    /\ mlock = [x \in Metrics |-> [readers |-> 0, writer |-> FALSE, waiting |-> FALSE]]
    /\ producer = [state |-> "idle", m |-> 0]
    /\ todo = {}
    /\ m = 0
    /\ lc = NoChan
    /\ l = <<>>
    /\ orphans = [blocked |-> 0, closing |-> 0]
    /\ open = {}
    /\ push = NoPush
    /\ dialSeq = <<>>
    /\ failed = {}
    /\ troubled = FALSE

\* no call of formatLabels is in progress
NoCall == [pc |-> "idle", name |-> <<>>, m |-> <<>>, ksep |-> <<>>,
           sep |-> <<>>, rep |-> <<>>, s |-> <<>>, todo |-> {}, r |-> <<>>]

Init == InitExporter /\ fmt = NoCall

\* ---- formatLabels --------------------------------------------------------
\* Strings are sequences of characters.  "=" and "," stand for characters
\* used as separators, "a" for any other character.
Chars == {"a", "=", ","}

\* the strings of at most n characters
Strs(n) == UNION {[1..k -> Chars] : k \in 0..n}

\* the label mappings: at most MaxLabels keys, each with a value
LabelMaps ==
    UNION {[K -> Strs(MaxValLen)] :
              K \in {K \in SUBSET Strs(MaxKeyLen) : Cardinality(K) <= MaxLabels}}

\* strings.Replace(s, old, new, -1): every non-overlapping occurrence of old
\* in s, from the left, is replaced by new; an empty old matches before every
\* character and at the end
RECURSIVE Replace(_, _, _)
Replace(s, old, new) ==
    IF old = <<>>
    THEN IF s = <<>> THEN new
         ELSE new \o <<Head(s)>> \o Replace(Tail(s), old, new)
    ELSE IF Len(s) < Len(old) THEN s
    ELSE IF SubSeq(s, 1, Len(old)) = old
         THEN new \o Replace(SubSeq(s, Len(old) + 1, Len(s)), old, new)
         ELSE <<Head(s)>> \o Replace(Tail(s), old, new)

\* strings.Join(s, sep)
RECURSIVE Join(_, _)
Join(s, sep) ==
    IF s = <<>> THEN <<>>
    ELSE IF Len(s) = 1 THEN s[1]
    ELSE s[1] \o sep \o Join(Tail(s), sep)

\* a key or value that forgets the second replacement
Escape_KsepOnly(x, ksep, sep, rep) == Replace(x, ksep, rep)

\* strings.Replace(strings.Replace(x, ksep, rep, -1), sep, rep, -1)
Escape(x, ksep, sep, rep) == Replace(Replace(x, ksep, rep), sep, rep)

\* formatLabels is called: r := name, and the range over m is to begin
FmtInit ==
    /\ InitExporter
    /\ \E name \in Strs(MaxNameLen), lm \in LabelMaps,
          ksep \in {<<c>> : c \in Chars}, sep \in {<<c>> : c \in Chars},
          rep \in Strs(MaxRepLen) :
          fmt = [pc |-> "range", name |-> name, m |-> lm, ksep |-> ksep,
                 sep |-> sep, rep |-> rep, s |-> <<>>, todo |-> DOMAIN lm,
                 r |-> name]

\* one iteration of for k, v := range m (in any order, m being a Go map):
\* s = append(s, fmt.Sprintf("%s%s%s", k1, ksep, v1))
FormatPair(k) ==
    /\ fmt.pc = "range"
    /\ k \in fmt.todo
    /\ LET k1 == Escape(k, fmt.ksep, fmt.sep, fmt.rep)
           v1 == Escape(fmt.m[k], fmt.ksep, fmt.sep, fmt.rep)
       IN  fmt' = [fmt EXCEPT !.s = Append(@, k1 \o fmt.ksep \o v1),
                              !.todo = @ \ {k}]
    /\ UNCHANGED <<pushTargets, started, tickC, ticks, pc, idx, exportTotal,
                   exportSuccess, store, mlock, producer, todo, m, lc, l,
                   orphans, open, push, dialSeq, failed, troubled>>

\* return r + sep + strings.Join(s, sep) if len(m) > 0; return r otherwise
FormatReturn ==
    /\ fmt.pc = "range"
    /\ fmt.todo = {}
    /\ fmt' = [fmt EXCEPT
                 !.pc = "done",
                 !.r = IF Cardinality(DOMAIN fmt.m) > 0
                       THEN fmt.r \o fmt.sep \o Join(fmt.s, fmt.sep)
                       ELSE fmt.r]
    /\ UNCHANGED <<pushTargets, started, tickC, ticks, pc, idx, exportTotal,
                   exportSuccess, store, mlock, producer, todo, m, lc, l,
                   orphans, open, push, dialSeq, failed, troubled>>

FormatRange == \E k \in Strs(MaxKeyLen) : FormatPair(k)

FmtNext ==
    \/ FormatRange
    \/ FormatReturn

FmtSpec == FmtInit /\ [][FmtNext]_vars

\* the first position of sep in s, 0 if there is none
Index(s, sep) ==
    LET at == {i \in 1..(Len(s) - Len(sep) + 1) :
                  SubSeq(s, i, i + Len(sep) - 1) = sep}
    IN  IF at = {} THEN 0 ELSE CHOOSE i \in at : \A j \in at : i <= j

\* the pieces of s between the occurrences of a non-empty sep
RECURSIVE Split(_, _)
Split(s, sep) ==
    LET i == Index(s, sep)
    IN  IF i = 0 THEN <<s>>
        ELSE <<SubSeq(s, 1, i - 1)>> \o Split(SubSeq(s, i + Len(sep), Len(s)), sep)

\* the number of occurrences of sep in s
Count(s, sep) == Len(Split(s, sep)) - 1

\* the returned line without the name in front of it
AfterName == SubSeq(fmt.r, Len(fmt.name) + 1, Len(fmt.r))

\* the number of labels of the call
NumLabels == Cardinality(DOMAIN fmt.m)

\* the line after the name is made of NumLabels pairs, each preceded by one
\* sep and holding exactly one ksep
Structural ==
    LET pieces == Split(AfterName, fmt.sep)
    IN  /\ Len(pieces) = NumLabels + 1
        /\ pieces[1] = <<>>
        /\ \A i \in 2..Len(pieces) : Count(pieces[i], fmt.ksep) = 1

\* ---- registration and start ---------------------------------------------

\* RegisterPushExport: e.pushTargets = append(e.pushTargets, p).  As in New,
\* every pushOptions brings its own pair of counters, and registration
\* happens before the push loop is started.
RegisterPushExport(p) ==
    /\ ~started
    /\ p \notin Range(pushTargets)
    /\ pushTargets' = Append(pushTargets, p)
    /\ UNCHANGED <<fmt, started, tickVars, pc, idx, expVars, store, mlock, producer,
                   passVars, open, push, dialSeq, failed, troubled>>

\* a start that creates the ticker and the goroutine whatever the targets
StartMetricPush_Always ==
    /\ ~started
    /\ started' = TRUE
    /\ pc' = "wait"
    /\ UNCHANGED <<fmt, pushTargets, tickVars, idx, expVars, store, mlock, producer,
                   passVars, open, push, dialSeq, failed, troubled>>

\* StartMetricPush: with at least one target, create the ticker and start the
\* goroutine that ranges over ticker.C; with none, do nothing.
StartMetricPush ==
    /\ ~started
    /\ started' = TRUE
    /\ pc' = IF Len(pushTargets) > 0 THEN "wait" ELSE "none"
    /\ UNCHANGED <<fmt, pushTargets, tickVars, idx, expVars, store, mlock, producer,
                   passVars, open, push, dialSeq, failed, troubled>>

\* time.Ticker: a tick is put in ticker.C, whose capacity is 1.  A tick that
\* finds the channel full is dropped and changes nothing, so it is no step.
TickerFire ==
    /\ pc # "none"
    /\ ~tickC
    /\ ticks < MaxTicks
    /\ ticks' = ticks + 1
    /\ tickC' = TRUE
    /\ UNCHANGED <<fmt, cfgVars, pc, idx, expVars, store, mlock, producer,
                   passVars, open, push, dialSeq, failed, troubled>>

\* a tick loop that starts every push cycle in a goroutine of its own
\* (go e.PushMetrics()): the cycle of a tick begins whatever the previous
\* cycle is doing
ReceiveTick_Go ==
    /\ pc # "none"
    /\ tickC
    /\ tickC' = FALSE
    /\ idx' = 1
    /\ pc' = "dial"
    /\ dialSeq' = <<>>
    /\ failed' = {}
    /\ push' = NoPush
    /\ UNCHANGED <<fmt, cfgVars, ticks, expVars, store, mlock, producer,
                   passVars, open, troubled>>

\* for range ticker.C { e.PushMetrics() }: receive a tick, enter PushMetrics
\* and its range over e.pushTargets.
ReceiveTick ==
    /\ pc = "wait"
    /\ tickC
    /\ tickC' = FALSE
    /\ idx' = 1
    /\ pc' = "dial"
    /\ dialSeq' = <<>>
    /\ failed' = {}
    /\ push' = NoPush
    /\ UNCHANGED <<fmt, cfgVars, ticks, expVars, store, mlock, producer,
                   passVars, open, troubled>>

\* the range loop over e.pushTargets moves to the next target, or PushMetrics
\* returns to the tick loop
NextTargetPc == IF idx < Len(pushTargets) THEN "dial" ELSE "wait"

NewPush(t, res) ==
    [NoPush EXCEPT !.t = t, !.dial = res,
                   !.startTotal = exportTotal[t],
                   !.startSuccess = exportSuccess[t]]

\* net.DialTimeout returns a connection
DialOk ==
    /\ pc = "dial"
    /\ open' = open \cup {target}
    /\ push' = NewPush(target, "ok")
    /\ dialSeq' = Append(dialSeq, target)
    /\ pc' = "deadline"
    /\ UNCHANGED <<fmt, cfgVars, tickVars, idx, expVars, store, mlock, producer,
                   passVars, failed, troubled>>

\* a dial error that does not skip the rest of the loop body
DialFail_FallThrough ==
    /\ pc = "dial"
    /\ push' = NewPush(target, "fail")
    /\ dialSeq' = Append(dialSeq, target)
    /\ pc' = "deadline"
    /\ troubled' = TRUE
    /\ UNCHANGED <<fmt, cfgVars, tickVars, idx, expVars, store, mlock, producer,
                   passVars, open, failed>>

\* net.DialTimeout returns an error: log, continue
DialFail ==
    /\ pc = "dial"
    /\ push' = NewPush(target, "fail")
    /\ dialSeq' = Append(dialSeq, target)
    /\ pc' = NextTargetPc
    /\ idx' = idx + 1
    /\ UNCHANGED <<fmt, cfgVars, tickVars, expVars, store, mlock, producer,
                   passVars, open, failed>>
    /\ troubled' = TRUE

\* conn.SetDeadline: an error is logged only
SetDeadline(ok) ==
    /\ pc = "deadline"
    /\ push' = [push EXCEPT !.deadline = IF ok THEN "ok" ELSE "fail"]
    /\ pc' = "storeRLock"
    /\ UNCHANGED <<fmt, cfgVars, tickVars, idx, expVars, store, mlock, producer,
                   passVars, open, dialSeq, failed>>
    /\ troubled' = (troubled \/ ~ok)

\* ---- writeSocketMetrics -------------------------------------------------

\* e.store.RLock(); defer e.store.RUnlock(); the range over e.store.Metrics
\* starts
StoreRLock ==
    /\ pc = "storeRLock"
    /\ CanRLock(store)
    /\ store' = [store EXCEPT !.readers = @ + 1]
    /\ todo' = store.metrics
    /\ push' = [push EXCEPT !.entered = TRUE]
    /\ pc' = "rangeMetrics"
    /\ UNCHANGED <<fmt, cfgVars, tickVars, idx, expVars, mlock, producer,
                   m, lc, l, orphans, open, dialSeq, failed, troubled>>

\* next iteration of the range over the map of metrics (in no fixed order)
NextMetric(x) ==
    /\ pc = "rangeMetrics"
    /\ x \in todo
    /\ todo' = todo \ {x}
    /\ m' = x
    /\ pc' = "metricRLock"
    /\ UNCHANGED <<fmt, cfgVars, tickVars, idx, expVars, store, mlock, producer,
                   lc, l, orphans, open, push, dialSeq, failed, troubled>>

\* Metric.EmitLabelSets, started: it will send the label sets the metric has
EmitLabelSets(x) == [m |-> x, n |-> store.labelSets[x], sent |-> 0, closed |-> FALSE]

\* a pass that takes the write lock of the metric (m.Lock())
MetricRLock_WriteLock ==
    /\ pc = "metricRLock"
    /\ ~mlock[m].writer /\ ~mlock[m].waiting /\ mlock[m].readers = 0
    /\ mlock' = [mlock EXCEPT ![m].writer = TRUE]
    /\ exportTotal' = [exportTotal EXCEPT ![target] = @ + 1]
    /\ lc' = EmitLabelSets(m)
    /\ push' = [push EXCEPT !.visited = @ \cup {m},
                            !.expected = @ \cup {<<m, i>> : i \in 1..store.labelSets[m]}]
    /\ pc' = "recv"
    /\ UNCHANGED <<fmt, cfgVars, tickVars, idx, exportSuccess, store, producer,
                   todo, m, l, orphans, open, dialSeq, failed, troubled>>

\* a pass that enumerates the metric without locking it
MetricRLock_NoLock ==
    /\ pc = "metricRLock"
    /\ exportTotal' = [exportTotal EXCEPT ![target] = @ + 1]
    /\ lc' = EmitLabelSets(m)
    /\ push' = [push EXCEPT !.visited = @ \cup {m},
                            !.expected = @ \cup {<<m, i>> : i \in 1..store.labelSets[m]}]
    /\ pc' = "recv"
    /\ UNCHANGED <<fmt, cfgVars, tickVars, idx, exportSuccess, store, mlock, producer,
                   todo, m, l, orphans, open, dialSeq, failed, troubled>>

\* m.RLock(); exportTotal.Add(1); lc := make(chan *metrics.LabelSet);
\* go m.EmitLabelSets(lc)
MetricRLock ==
    /\ pc = "metricRLock"
    /\ CanRLock(mlock[m])
    /\ mlock' = [mlock EXCEPT ![m].readers = @ + 1]
    /\ exportTotal' = [exportTotal EXCEPT ![target] = @ + 1]
    /\ lc' = EmitLabelSets(m)
    /\ push' = [push EXCEPT !.visited = @ \cup {m},
                            !.expected = @ \cup {<<m, i>> : i \in 1..store.labelSets[m]}]
    /\ pc' = "recv"
    /\ UNCHANGED <<fmt, cfgVars, tickVars, idx, exportSuccess, store, producer,
                   todo, m, l, orphans, open, dialSeq, failed, troubled>>

\* a range over lc that releases the metric inside the loop body
Recv_UnlockInLoop ==
    /\ pc = "recv"
    /\ lc.sent < lc.n
    /\ lc' = [lc EXCEPT !.sent = @ + 1]
    /\ l' = <<lc.m, lc.sent + 1>>
    /\ mlock' = [mlock EXCEPT ![m].readers = @ - 1]
    /\ pc' = "write"
    /\ UNCHANGED <<fmt, cfgVars, tickVars, idx, expVars, store, producer,
                   todo, m, orphans, open, push, dialSeq, failed, troubled>>

\* for l := range lc, with EmitLabelSets at c <- &LabelSet{...}: the
\* unbuffered channel hands the next label set over
Recv ==
    /\ pc = "recv"
    /\ lc.sent < lc.n
    /\ lc' = [lc EXCEPT !.sent = @ + 1]
    /\ l' = <<lc.m, lc.sent + 1>>
    /\ pc' = "write"
    /\ UNCHANGED <<fmt, cfgVars, tickVars, idx, expVars, store, mlock, producer,
                   todo, m, orphans, open, push, dialSeq, failed, troubled>>

\* EmitLabelSets: close(c) after the last label set
EmitClose ==
    /\ lc.m # 0
    /\ lc.sent = lc.n
    /\ ~lc.closed
    /\ lc' = [lc EXCEPT !.closed = TRUE]
    /\ UNCHANGED <<fmt, cfgVars, tickVars, pc, idx, expVars, store, mlock, producer,
                   todo, m, l, orphans, open, push, dialSeq, failed, troubled>>

\* line := f(e.o.Hostname, m, l); fmt.Fprint(c, line) returns no error;
\* exportSuccess.Add(1)
WriteOk ==
    /\ pc = "write"
    /\ push' = [push EXCEPT !.lines = @ (+) SetToBag({l})]
    /\ exportSuccess' = [exportSuccess EXCEPT ![target] = @ + 1]
    /\ l' = <<>>
    /\ pc' = "recv"
    /\ UNCHANGED <<fmt, cfgVars, tickVars, idx, exportTotal, store, mlock, producer,
                   todo, m, lc, orphans, open, dialSeq, failed, troubled>>

\* what becomes of the EmitLabelSets goroutine of a pass that returned in
\* the middle of the range over lc
Abandon(c, o) ==
    IF c.closed THEN o
    ELSE IF c.sent < c.n THEN [o EXCEPT !.blocked = @ + 1]
    ELSE [o EXCEPT !.closing = @ + 1]

\* a write error that is noted but does not end the range over lc
WriteFail_Continue ==
    /\ pc = "write"
    /\ failed' = failed \cup {target}
    /\ l' = <<>>
    /\ pc' = "recv"
    /\ troubled' = TRUE
    /\ UNCHANGED <<fmt, cfgVars, tickVars, idx, expVars, store, mlock, producer,
                   todo, m, lc, orphans, open, push, dialSeq>>

\* a write error after which PushMetrics goes to the next target without
\* closing the connection
WriteFail_SkipClose ==
    /\ pc = "write"
    /\ store' = [store EXCEPT !.readers = @ - 1]
    /\ push' = [push EXCEPT !.ret = "error"]
    /\ failed' = failed \cup {target}
    /\ orphans' = Abandon(lc, orphans)
    /\ lc' = NoChan
    /\ l' = <<>>
    /\ m' = 0
    /\ todo' = {}
    /\ pc' = NextTargetPc
    /\ idx' = idx + 1
    /\ troubled' = TRUE
    /\ UNCHANGED <<fmt, cfgVars, tickVars, expVars, mlock, producer,
                   open, dialSeq>>

\* fmt.Fprint(c, line) returns an error: return errors.Errorf(...), which
\* runs the deferred e.store.RUnlock(); PushMetrics logs the error
WriteFail ==
    /\ pc = "write"
    /\ store' = [store EXCEPT !.readers = @ - 1]
    /\ push' = [push EXCEPT !.ret = "error"]
    /\ failed' = failed \cup {target}
    /\ orphans' = Abandon(lc, orphans)
    /\ lc' = NoChan
    /\ l' = <<>>
    /\ m' = 0
    /\ todo' = {}
    /\ pc' = "close"
    /\ UNCHANGED <<fmt, cfgVars, tickVars, idx, expVars, mlock, producer,
                   open, dialSeq>>
    /\ troubled' = TRUE

\* a range over lc that is left after any iteration
MetricRUnlock_Break ==
    /\ pc = "recv"
    /\ orphans' = Abandon(lc, orphans)
    /\ lc' = NoChan
    /\ mlock' = [mlock EXCEPT ![m].readers = @ - 1]
    /\ m' = 0
    /\ pc' = "rangeMetrics"
    /\ UNCHANGED <<fmt, cfgVars, tickVars, idx, expVars, store, producer,
                   todo, l, open, push, dialSeq, failed, troubled>>

\* the range over lc ends, the channel being closed and drained; m.RUnlock()
MetricRUnlock ==
    /\ pc = "recv"
    /\ lc.closed
    /\ lc' = NoChan
    /\ mlock' = [mlock EXCEPT ![m].readers = @ - 1]
    /\ m' = 0
    /\ pc' = "rangeMetrics"
    /\ UNCHANGED <<fmt, cfgVars, tickVars, idx, expVars, store, producer,
                   todo, l, orphans, open, push, dialSeq, failed, troubled>>

\* the range over the metrics is over: return nil, which runs the deferred
\* e.store.RUnlock()
ReturnNil ==
    /\ pc = "rangeMetrics"
    /\ todo = {}
    /\ store' = [store EXCEPT !.readers = @ - 1]
    /\ push' = [push EXCEPT !.ret = "nil"]
    /\ pc' = "close"
    /\ UNCHANGED <<fmt, cfgVars, tickVars, idx, expVars, mlock, producer,
                   passVars, open, dialSeq, failed, troubled>>

\* an abandoned EmitLabelSets that had sent its last label set closes its
\* channel and ends
OrphanClose ==
    /\ orphans.closing > 0
    /\ orphans' = [orphans EXCEPT !.closing = @ - 1]
    /\ UNCHANGED <<fmt, cfgVars, tickVars, pc, idx, expVars, store, mlock, producer,
                   todo, m, lc, l, open, push, dialSeq, failed, troubled>>

\* ---- back in PushMetrics ------------------------------------------------

\* conn.Close(); an error is logged only; next target
Close(ok) ==
    /\ pc = "close"
    /\ open' = open \ {target}
    /\ push' = [push EXCEPT !.closes = @ + 1]
    /\ pc' = NextTargetPc
    /\ idx' = idx + 1
    /\ troubled' = (troubled \/ ~ok)
    /\ UNCHANGED <<fmt, cfgVars, tickVars, expVars, store, mlock, producer,
                   passVars, dialSeq, failed>>

\* ---- the metrics pipeline (producer thread) -----------------------------

\* Store.Add: s.Lock() is requested; from now on new readers wait
ProducerStoreLock ==
    /\ producer.state = "idle"
    /\ store.metrics # Metrics
    /\ store' = [store EXCEPT !.waiting = TRUE]
    /\ producer' = [state |-> "waitStore", m |-> 0]
    /\ UNCHANGED <<fmt, cfgVars, tickVars, pc, idx, expVars, mlock, passVars,
                   open, push, dialSeq, failed, troubled>>

\* s.Lock() is granted
ProducerStoreLocked ==
    /\ producer.state = "waitStore"
    /\ CanLock(store)
    /\ store' = [store EXCEPT !.waiting = FALSE, !.writer = TRUE]
    /\ producer' = [producer EXCEPT !.state = "holdStore"]
    /\ UNCHANGED <<fmt, cfgVars, tickVars, pc, idx, expVars, mlock, passVars,
                   open, push, dialSeq, failed, troubled>>

\* Store.Add: the metric is added to s.Metrics; s.Unlock()
ProducerStoreAdd(x) ==
    /\ producer.state = "holdStore"
    /\ x \notin store.metrics
    /\ store' = [store EXCEPT !.metrics = @ \cup {x}, !.writer = FALSE]
    /\ producer' = [state |-> "idle", m |-> 0]
    /\ UNCHANGED <<fmt, cfgVars, tickVars, pc, idx, expVars, mlock, passVars,
                   open, push, dialSeq, failed, troubled>>

\* Metric.GetDatum: m.Lock() is requested; from now on new readers wait
ProducerMetricLock(x) ==
    /\ producer.state = "idle"
    /\ x \in store.metrics
    /\ mlock' = [mlock EXCEPT ![x].waiting = TRUE]
    /\ producer' = [state |-> "waitMetric", m |-> x]
    /\ UNCHANGED <<fmt, cfgVars, tickVars, pc, idx, expVars, store, passVars,
                   open, push, dialSeq, failed, troubled>>

\* m.Lock() is granted
ProducerMetricLocked ==
    /\ producer.state = "waitMetric"
    /\ CanLock(mlock[producer.m])
    /\ mlock' = [mlock EXCEPT ![producer.m].waiting = FALSE,
                              ![producer.m].writer = TRUE]
    /\ producer' = [producer EXCEPT !.state = "holdMetric"]
    /\ UNCHANGED <<fmt, cfgVars, tickVars, pc, idx, expVars, store, passVars,
                   open, push, dialSeq, failed, troubled>>

\* Metric.GetDatum: a new label set is created (add) or an existing one is
\* found; m.Unlock()
ProducerMetricUnlock(add) ==
    /\ producer.state = "holdMetric"
    /\ add => store.labelSets[producer.m] < MaxLabelSets
    /\ store' = [store EXCEPT !.labelSets[producer.m] = IF add THEN @ + 1 ELSE @]
    /\ mlock' = [mlock EXCEPT ![producer.m].writer = FALSE]
    /\ producer' = [state |-> "idle", m |-> 0]
    /\ UNCHANGED <<fmt, cfgVars, tickVars, pc, idx, expVars, passVars,
                   open, push, dialSeq, failed, troubled>>

\* ---- specification ------------------------------------------------------

Register == \E p \in Targets : RegisterPushExport(p)
Deadline == \E ok \in BOOLEAN : SetDeadline(ok)
RangeMetrics == \E x \in Metrics : NextMetric(x)
CloseConn == \E ok \in BOOLEAN : Close(ok)
StoreAdd == \E x \in Metrics : ProducerStoreAdd(x)
MetricLock == \E x \in Metrics : ProducerMetricLock(x)
MetricUnlock == \E add \in BOOLEAN : ProducerMetricUnlock(add)

\* steps of the push goroutine
Pusher ==
    \/ ReceiveTick
    \/ DialOk
    \/ DialFail
    \/ Deadline
    \/ StoreRLock
    \/ RangeMetrics
    \/ MetricRLock
    \/ Recv
    \/ WriteOk
    \/ WriteFail
    \/ MetricRUnlock
    \/ ReturnNil
    \/ CloseConn

\* steps of the EmitLabelSets goroutines
Emitter ==
    \/ EmitClose
    \/ OrphanClose

\* steps of the pipeline thread once it has asked for a lock
ProducerProgress ==
    \/ ProducerStoreLocked
    \/ StoreAdd
    \/ ProducerMetricLocked
    \/ MetricUnlock

Next ==
    \/ Register
    \/ StartMetricPush
    \/ TickerFire
    \/ ReceiveTick
    \/ DialOk
    \/ DialFail
    \/ Deadline
    \/ StoreRLock
    \/ RangeMetrics
    \/ MetricRLock
    \/ Recv
    \/ EmitClose
    \/ WriteOk
    \/ WriteFail
    \/ MetricRUnlock
    \/ ReturnNil
    \/ OrphanClose
    \/ CloseConn
    \/ ProducerStoreLock
    \/ ProducerStoreLocked
    \/ StoreAdd
    \/ MetricLock
    \/ ProducerMetricLocked
    \/ MetricUnlock

Spec == Init /\ [][Next]_vars

\* The Go scheduler runs every goroutine that can take a step: the push
\* goroutine, the EmitLabelSets goroutines and a pipeline thread that waits
\* for or holds a lock.  A reader blocked in RLock behind a writer is
\* admitted when that writer unlocks, ahead of any later writer, so a read
\* lock that is free again and again is eventually obtained.
FairSpec ==
    /\ Spec
    /\ WF_vars(Pusher)
    /\ SF_vars(StoreRLock)
    /\ SF_vars(MetricRLock)
    /\ WF_vars(Emitter)
    /\ WF_vars(ProducerProgress)

TypeOK ==
    /\ pc \in {"none", "wait", "dial", "deadline", "storeRLock", "rangeMetrics",
               "metricRLock", "recv", "write", "close"}
    /\ store.readers >= 0
    /\ \A x \in Metrics : mlock[x].readers >= 0

\* ---- claims --------------------------------------------------------------

\* the push goroutine is inside writeSocketMetrics
InPass == pc \in {"rangeMetrics", "metricRLock", "recv", "write"}

\* writeSocketMetrics has returned to PushMetrics for the current target
Returned == pc = "close" /\ push.ret # "none"

Attempted == exportTotal[push.t] - push.startTotal
Succeeded == exportSuccess[push.t] - push.startSuccess

\* C1: when a push to a target returns without a write error, the target's
\* attempted counter has grown by the number of label sets produced across
\* all metrics, and its success counter by the same amount.
C1_AttemptedPerLabelSet ==
    (Returned /\ push.ret = "nil") =>
        /\ Attempted = Cardinality(push.expected)
        /\ Succeeded = Cardinality(push.expected)

\* C2: when the second write of a push over one metric with at least two
\* label sets fails, the attempted counter has grown by 2 and the success
\* counter by 1 once writeSocketMetrics has returned to PushMetrics.
C2_SecondWriteFails ==
    (/\ Returned
     /\ push.ret = "error"
     /\ BagCardinality(push.lines) = 1
     /\ Cardinality(push.visited) = 1
     /\ Cardinality(push.expected) >= 2) =>
        /\ Attempted = 2
        /\ Succeeded = 1

\* C3: once a dial, deadline, write or close has failed, every push cycle
\* that is under way still dials all registered targets and returns, with
\* the pipeline thread requesting write locks concurrently.
C3_FailSoft ==
    [](((troubled /\ pc \notin {"none", "wait"})
          => <>(pc = "wait" /\ dialSeq = pushTargets)))

\* C4: whenever writeSocketMetrics is not running (it has returned nil or an
\* error, or has not been entered), no read lock is held on any metric.
C4_NoMetricLockAfterReturn ==
    ~InPass => \A x \in Metrics : mlock[x].readers = 0

\* position of a target in the registration order (0: not registered)
Position(t) ==
    IF t \in Range(pushTargets)
    THEN CHOOSE i \in 1..Len(pushTargets) : pushTargets[i] = t
    ELSE 0

\* C5: after a dial error nothing more is done for the target in this tick:
\* its counters are where they were, no lock was taken for it, nothing was
\* written or closed, and the loop is at the next target (or has returned).
C5_DialErrorSkipsTarget ==
    push.dial = "fail" =>
        /\ Attempted = 0
        /\ Succeeded = 0
        /\ ~push.entered
        /\ store.readers = 0
        /\ push.deadline = "none"
        /\ push.lines = EmptyBag
        /\ push.ret = "none"
        /\ push.closes = 0
        /\ push.t \notin open
        /\ idx = Position(push.t) + 1
        /\ pc = IF idx <= Len(pushTargets) THEN "dial" ELSE "wait"

\* C5 witness: the dial of a target failed and the next target is to be dialed
C5_Witness == push.dial = "fail" /\ pc = "dial" /\ Len(dialSeq) = 1

\* C6: in a pass without write error every metric of the store is visited
\* and every label set is written exactly once; at no point of a pass has a
\* label set been written twice.
C6_OneLinePerLabelSet ==
    /\ InPass => \A e \in BagToSet(push.lines) : CopiesIn(e, push.lines) = 1
    /\ (pc = "rangeMetrics" /\ todo = {}) =>
          /\ push.visited = store.metrics
          /\ push.lines = SetToBag(push.expected)
    /\ (Returned /\ push.ret = "nil") => push.lines = SetToBag(push.expected)

\* C6 witness: a pass has returned nil after writing two lines
C6_Witness == Returned /\ push.ret = "nil" /\ BagCardinality(push.lines) = 2

\* C7: a step that releases the read lock of a metric is taken only when
\* the EmitLabelSets goroutine of that metric has sent all its label sets
\* and closed the channel, and all of them have been received and written.
C7_UnlockAfterDrain ==
    [][\A x \in Metrics :
          mlock'[x].readers < mlock[x].readers =>
              /\ lc.m = x
              /\ lc.closed
              /\ lc.sent = lc.n
              /\ l = <<>>
              /\ \A i \in 1..lc.n : CopiesIn(<<x, i>>, push.lines) = 1]_vars

\* C7 witness: a metric with two label sets has been drained and unlocked
C7_Witness ==
    /\ pc = "rangeMetrics"
    /\ push.visited # {}
    /\ BagCardinality(push.lines) = 2
    /\ \A x \in push.visited : mlock[x].readers = 0

\* C8: a write error ends the pass with an error; the lines written and the
\* success increments made before it are kept; for the rest of the tick the
\* counters of the target do not change and nothing more is written on its
\* connection.
C8_WriteErrorAborts ==
    /\ [](push.ret = "error" =>
            /\ push.t \in failed
            /\ ~InPass
            /\ Succeeded = BagCardinality(push.lines))
    /\ [][\A t \in failed :
            /\ exportTotal'[t] = exportTotal[t]
            /\ exportSuccess'[t] = exportSuccess[t]
            /\ (push.t = t /\ push'.t = t) => push'.lines = push.lines]_vars

\* C8 witness: a tick is over in which a write failed after a line was written
C8_Witness ==
    /\ pc = "wait"
    /\ push.ret = "error"
    /\ BagCardinality(push.lines) >= 1
    /\ push.closes = 1

\* C9: a connection that was dialed is closed, once, before the push of its
\* target is over, whatever the deadline call and the writes returned, and
\* the loop goes on to the next target after the close.
C9_EveryConnectionClosed ==
    /\ [](push.closes <= 1)
    /\ [](pc \in {"dial", "wait"} => open = {})
    /\ [](open # {} => <>(open = {} /\ push.closes = 1))

\* a push cycle is under way
InCycle == pc \notin {"none", "wait"}

\* C10: in every push cycle the targets are dialed one at a time in
\* registration order, a target's connection being closed before the next
\* dial, and every registered target is dialed in the cycle.
C10_EveryTargetInOrder ==
    /\ [](InCycle => dialSeq = SubSeq(pushTargets, 1, Len(dialSeq)))
    /\ [](pc = "dial" => open = {})
    /\ [](InCycle => <>(dialSeq = pushTargets))

\* C11: once the push loop is started, at most one connection dialed by
\* the exporter is open at any time.
C11_OneConnectionAtATime ==
    started => Cardinality(open) <= 1

\* C11 witness: the connection of the second target is open, the first
\* target's push being over
C11_Witness == Len(dialSeq) = 2 /\ Cardinality(open) = 1 /\ pc = "write"

\* C12, as claimed: there is no mutual exclusion between ticks, so a tick
\* that fires while a push cycle is in progress can start its own cycle at
\* once.
C12_TicksOverlap ==
    (tickC /\ InCycle) => ENABLED ReceiveTick

\* C12, amended: the cycle of a tick begins only when no cycle is in
\* progress: the goroutine is back at the range over ticker.C, no
\* connection is open and the store is not read-locked by a pass.
C12_CyclesDoNotOverlap ==
    [][(tickC /\ ~tickC') => (pc = "wait" /\ open = {} /\ store.readers = 0)]_vars

\* C12 witness: the second tick has fired while the cycle of the first is
\* still writing
C12_Witness == ticks = 2 /\ tickC /\ pc = "write"

\* C13: after StartMetricPush with no registered target there is no
\* goroutine and no ticker: no tick, no dial, no lock and no counter change.
C13_NoTargetsNoWork ==
    (started /\ pushTargets = <<>>) =>
        /\ pc = "none"
        /\ ticks = 0
        /\ ~tickC
        /\ dialSeq = <<>>
        /\ open = {}
        /\ push = NoPush
        /\ store.readers = 0
        /\ \A x \in Metrics : mlock[x].readers = 0
        /\ \A t \in Targets : exportTotal[t] = 0 /\ exportSuccess[t] = 0

\* C13 witness: started without targets, and the pipeline has gone on to
\* fill the store since
C13_Witness ==
    /\ started
    /\ pushTargets = <<>>
    /\ store.metrics # {}
    /\ \E x \in Metrics : store.labelSets[x] = MaxLabelSets

\* C14: a step of the exporter (any step that is not the pipeline's) takes
\* no write lock and leaves the metrics of the store and their label sets
\* as they are.
C14_ExporterNeverMutates ==
    [][(producer' = producer) =>
          /\ store'.metrics = store.metrics
          /\ store'.labelSets = store.labelSets
          /\ store'.writer = store.writer
          /\ store'.waiting = store.waiting
          /\ \A x \in Metrics :
                /\ mlock'[x].writer = mlock[x].writer
                /\ mlock'[x].waiting = mlock[x].waiting]_vars

\* C14 witness: a cycle is over in which a pass wrote the label sets of a
\* metric
C14_Witness ==
    pc = "wait" /\ push.ret = "nil" /\ push.expected # {} /\ store.readers = 0

\* C16: the read lock of the store covers the whole pass: whenever the
\* exporter holds the read lock of a metric, has a producer goroutine running
\* or writes a line, it holds the read lock of the store; and outside a pass
\* the exporter holds no read lock of the store.
C16_StoreLockCoversPass ==
    /\ (\/ \E x \in Metrics : mlock[x].readers > 0
        \/ lc.m # 0
        \/ orphans.blocked > 0
        \/ orphans.closing > 0
        \/ pc = "write") => store.readers > 0
    /\ ~InPass => store.readers = 0

\* C17: from the start of the enumeration of a metric's label sets to the
\* write of the last of them no pipeline thread holds the write lock of the
\* metric and the metric's label sets are those the enumeration started
\* with: the lines of one metric in one pass show one state of it.
C17_MetricFrozenDuringEnumeration ==
    /\ [](lc.m # 0 => (~mlock[lc.m].writer /\ store.labelSets[lc.m] = lc.n))
    /\ [][(lc.m # 0 /\ lc'.m = lc.m) =>
             store'.labelSets[lc.m] = store.labelSets[lc.m]]_vars

\* C17 witness: the second label set of a metric is being written while a
\* pipeline thread waits for the write lock of that metric
C17_Witness ==
    /\ pc = "write"
    /\ lc.sent = 2
    /\ producer.state = "waitMetric"
    /\ producer.m = lc.m

\* C18: every push cycle that has begun returns to the tick loop.
C18_PushMetricsReturns ==
    InCycle ~> (pc = "wait")

\* C19: for every target the success counter never exceeds the attempted
\* counter, and neither counter ever decreases.
C19_SuccessAtMostAttempted ==
    /\ [](\A t \in Targets : exportSuccess[t] <= exportTotal[t])
    /\ [][\A t \in Targets : /\ exportTotal'[t] >= exportTotal[t]
                             /\ exportSuccess'[t] >= exportSuccess[t]]_vars

\* C20: every producer goroutine started by a pass terminates: none stays
\* blocked in a send on the channel after writeSocketMetrics has returned.
C20_ProducersTerminate ==
    (orphans.blocked > 0 \/ orphans.closing > 0)
        ~> (orphans.blocked = 0 /\ orphans.closing = 0)

\* C15, as claimed: for every name, label mapping and (keySep, pairSep,
\* replacement) the returned line has its separators at structural positions
\* only: after the name each pairSep delimits a pair and each pair holds
\* exactly one keySep.
C15_SeparatorsOnlyStructural ==
    fmt.pc = "done" => Structural

\* C15, amended: for single-character separators and a replacement that
\* contains neither of them, no separator of a key or value survives: after
\* the name the line holds one pairSep and one keySep per label and no other
\* occurrence of either, and when the two separators differ each pairSep
\* delimits a pair and each pair holds exactly one keySep.
C15_EscapedWhenRepIsClean ==
    (/\ fmt.pc = "done"
     /\ Count(fmt.rep, fmt.ksep) = 0
     /\ Count(fmt.rep, fmt.sep) = 0) =>
        IF fmt.ksep = fmt.sep
        THEN Count(AfterName, fmt.sep) = 2 * NumLabels
        ELSE /\ Count(AfterName, fmt.sep) = NumLabels
             /\ Count(AfterName, fmt.ksep) = NumLabels
             /\ Structural

\* C15 witness: two labels, one with both separators in its value, the
\* other with a separator as its key, have been rendered with a replacement
\* that is neither separator
C15_Witness ==
    /\ fmt.pc = "done"
    /\ fmt.ksep = <<"=">>
    /\ fmt.sep = <<",">>
    /\ fmt.rep = <<"a">>
    /\ NumLabels = 2
    /\ \E k \in DOMAIN fmt.m : fmt.m[k] = <<"=", ",">>
    /\ <<",">> \in DOMAIN fmt.m

====
